---- MODULE Spec2Model ----
(***************************************************************************)
(* Model of app/models/cassandra_models.py: MessageModel and               *)
(* ConversationModel over the three Cassandra tables messages,             *)
(* conversations and last_message_cache.                                   *)
(*                                                                         *)
(* Every `await cassandra_client.execute(...)` is one atomic step of the   *)
(* calling coroutine: the local code that runs between two awaits is part  *)
(* of the step that ends with the next storage round trip.  Two client     *)
(* coroutines interleave at these steps.                                   *)
(***************************************************************************)
EXTENDS Integers, Sequences, FiniteSets, TLC

\* ---------------------------------------------------------------- bounds
NumUsers == 2
NumContents == 2
MaxConv == 2
MaxTime == 2
MaxOps == 3
MaxConcurrentOps == 2
MaxPage == 2
MaxLimit == 2

Procs == {"c1", "c2"}
Users == 1..NumUsers
Contents == 1..NumContents
ConvIds == 1..MaxConv
Times == 0..MaxTime
Pages == 1..MaxPage
Limits == 1..MaxLimit

\* Python's None (a null column value, a not-found result).
None == 0 - 1

VARIABLES
    messages,            \* table messages: a set of rows
    conversations,       \* table conversations: a set of rows
    last_message_cache,  \* table last_message_cache: a set of rows
    tokenOrder,          \* the partitioner's order of the partition keys
    sequential,          \* TRUE: every call is awaited before the next one starts
    now,                 \* the clock read by datetime.now()
    pc,                  \* per coroutine: the await it is suspended at, or idle/done
    loc,                 \* per coroutine: arguments and local variables
    ret,                 \* per coroutine: the value its last call returned
    nops,                \* number of writing calls started
    firstId,             \* history: pair -> id its first create_or_get returned
    appendCount,         \* history: conversation -> completed create_message calls
    issuedM,             \* history: message ids issued so far
    issuedC,             \* history: conversation ids issued so far
    allocOK,             \* history: every id issued so far was fresh and higher
    foreign              \* history: some create_message named a sender and receiver
                         \*          that are not the two participants of its conversation

vars == <<messages, conversations, last_message_cache, tokenOrder, sequential, now,
          pc, loc, ret, nops, firstId, appendCount, issuedM, issuedC, allocOK, foreign>>

tables == <<messages, conversations, last_message_cache>>
history == <<firstId, appendCount, issuedM, issuedC, allocOK, foreign>>
fixed == <<tokenOrder, sequential>>

\* ---------------------------------------------------------------- helpers
Min(a, b) == IF a < b THEN a ELSE b
Max(a, b) == IF a > b THEN a ELSE b

Pair(a, b) == {a, b}
Pairs == {Pair(a, b) : a \in Users, b \in Users}

Perms(S) == {f \in [1..Cardinality(S) -> S] : \A i, j \in 1..Cardinality(S) : f[i] = f[j] => i = j}

\* Position of partition key c in the partitioner's token order.
Rank(c) == CHOOSE i \in 1..Len(tokenOrder) : tokenOrder[i] = c

\* The partition a full-table scan reaches first.
FirstByToken(S) == CHOOSE c \in S : \A d \in S : Rank(c) <= Rank(d)

\* ---------------------------------------------------------------- storage
\* Primary keys: a write to an existing key replaces the row (upsert).  MsgKey
\* and ConvKey are those of the persisted layout; CacheKey is the key the
\* UPDATE's WHERE clause names.
MsgKey(m) == <<m.conversation_id, m.timestamp>>
ConvKey(c) == c.conversation_id
CacheKey(c) == c.conversation_id

InsertMessage(tbl, row) == {x \in tbl : MsgKey(x) # MsgKey(row)} \cup {row}
InsertConversation(tbl, row) == {x \in tbl : ConvKey(x) # ConvKey(row)} \cup {row}
WriteCache(tbl, row) == {x \in tbl : CacheKey(x) # CacheKey(row)} \cup {row}

\* Rows of one partition of messages.
Partition(msgs, cid) == {m \in msgs : m.conversation_id = cid}

\* SELECT ... FROM messages WHERE conversation_id = cid ORDER BY timestamp DESC
RECURSIVE OrderByTimestampDesc(_)
OrderByTimestampDesc(rows) ==
    IF rows = {} THEN << >>
    ELSE LET top == CHOOSE m \in rows : \A x \in rows : x.timestamp <= m.timestamp
         IN  <<top>> \o OrderByTimestampDesc(rows \ {top})

\* SELECT message_id FROM messages LIMIT 1: the first row of the first partition
\* (a partition is clustered by timestamp, newest first).
FirstMessageRow(msgs) ==
    LET cid == FirstByToken({m.conversation_id : m \in msgs})
    IN  OrderByTimestampDesc(Partition(msgs, cid))[1]

\* SELECT conversation_id FROM conversations LIMIT 1
FirstConversationRow(convs) ==
    LET cid == FirstByToken({c.conversation_id : c \in convs})
    IN  CHOOSE c \in convs : c.conversation_id = cid

\* SELECT conversation_id FROM last_message_cache
\* WHERE sender_id = s AND receiver_id = r ALLOW FILTERING, then rows[0]
LookupCache(cache, s, r) ==
    LET hits == {c.conversation_id : c \in {x \in cache : x.sender_id = s /\ x.receiver_id = r}}
    IN  IF hits = {} THEN None ELSE FirstByToken(hits)

\* ---------------------------------------------------------------- pure code
get_new_message_id(msgs) ==
    IF msgs # {} THEN FirstMessageRow(msgs).message_id + 1 ELSE 1

get_new_conversation_id(convs) ==
    IF convs # {} THEN FirstConversationRow(convs).conversation_id + 1 ELSE 1

NotFound == [kind |-> "none"]

\* An exception that leaves the method.
Raised == [kind |-> "error"]

\* The check `if not rows` left out: rows[0] of an empty result raises IndexError.
get_conversation_unchecked(cache, cid) ==
    LET rows == {c \in cache : c.conversation_id = cid}
    IN  IF rows = {} THEN Raised
        ELSE LET row == CHOOSE c \in rows : TRUE
             IN  [kind |-> "conversation",
                  conversation_id |-> row.conversation_id,
                  sender_id |-> row.sender_id,
                  receiver_id |-> row.receiver_id,
                  last_message_at |-> row.last_timestamp,
                  last_message_content |-> row.last_message]

\* lines 271-299: None when no row has the id, else the snapshot of the row
get_conversation(cache, cid) ==
    LET rows == {c \in cache : c.conversation_id = cid}
    IN  IF rows = {} THEN NotFound
        ELSE LET row == CHOOSE c \in rows : TRUE
             IN  [kind |-> "conversation",
                  conversation_id |-> row.conversation_id,
                  sender_id |-> row.sender_id,
                  receiver_id |-> row.receiver_id,
                  last_message_at |-> row.last_timestamp,
                  last_message_content |-> row.last_message]

\* messages[offset:offset + limit] of Python, for offset >= 0
Slice(seq, offset, limit) ==
    IF offset >= Len(seq) THEN << >>
    ELSE SubSeq(seq, offset + 1, Min(offset + limit, Len(seq)))

\* An off-by-one slip: pages counted from 0.
OffsetFromZero(page, limit) == page * limit

\* line 134: offset = (page - 1) * limit
Offset(page, limit) == (page - 1) * limit

get_conversation_messages(msgs, cid, page, limit) ==
    LET all == OrderByTimestampDesc(Partition(msgs, cid))
        total == Len(all)
    IN  [kind |-> "messages",
         conversation_id |-> cid, page |-> page, limit |-> limit,
         messages |-> Slice(all, Offset(page, limit), limit),
         total |-> total]

\* A slip in the comparison: the message at before_timestamp itself is returned too.
get_messages_up_to_timestamp(msgs, cid, before_timestamp, page, limit) ==
    LET all == OrderByTimestampDesc({m \in Partition(msgs, cid) : m.timestamp <= before_timestamp})
        total == Len(all)
    IN  [kind |-> "messages",
         conversation_id |-> cid, page |-> page, limit |-> limit,
         messages |-> Slice(all, Offset(page, limit), limit),
         total |-> total]

\* lines 168-194: the rows with timestamp < before_timestamp, newest first,
\* counted (line 188) and sliced (lines 189-190)
get_messages_before_timestamp(msgs, cid, before_timestamp, page, limit) ==
    LET all == OrderByTimestampDesc({m \in Partition(msgs, cid) : m.timestamp < before_timestamp})
        total == Len(all)
    IN  [kind |-> "messages",
         conversation_id |-> cid, page |-> page, limit |-> limit,
         messages |-> Slice(all, Offset(page, limit), limit),
         total |-> total]

\* The rows a filtering scan of last_message_cache returns, partition by
\* partition in token order.
RECURSIVE ScanCache(_)
ScanCache(rows) ==
    IF rows = {} THEN << >>
    ELSE LET first == CHOOSE c \in rows : \A d \in rows : Rank(c.conversation_id) <= Rank(d.conversation_id)
         IN  <<first>> \o ScanCache(rows \ {first})

\* seq without its i-th element
RemoveAt(seq, i) == SubSeq(seq, 1, i - 1) \o SubSeq(seq, i + 1, Len(seq))

\* line 250: rows_list.sort(key=lambda x: x["last_timestamp"], reverse=True);
\* the sort is stable, rows with equal keys keep their order.
RECURSIVE SortByLastTimestampDesc(_)
SortByLastTimestampDesc(seq) ==
    IF seq = << >> THEN << >>
    ELSE LET i == CHOOSE i \in 1..Len(seq) :
                    /\ \A j \in 1..Len(seq) : seq[j].last_timestamp <= seq[i].last_timestamp
                    /\ \A j \in 1..(i - 1) : seq[j].last_timestamp < seq[i].last_timestamp
         IN  <<seq[i]>> \o SortByLastTimestampDesc(RemoveAt(seq, i))

\* lines 257-265: the dictionary built from a cache row
ConversationEntry(row) ==
    [conversation_id |-> row.conversation_id,
     user1_id |-> row.sender_id,
     user2_id |-> row.receiver_id,
     last_message_at |-> row.last_timestamp,
     last_message_content |-> row.last_message]

\* lines 246-268: merge, sort, count, slice, map.  Comparing a null key with
\* another key raises TypeError.
get_user_conversations(rows1, rows2, page, limit) ==
    LET rows_list == rows1 \o rows2
    IN  IF Len(rows_list) >= 2 /\ \E i \in 1..Len(rows_list) : rows_list[i].last_timestamp = None
        THEN Raised
        ELSE LET sorted == SortByLastTimestampDesc(rows_list)
                 total == Len(sorted)
                 paged == Slice(sorted, Offset(page, limit), limit)
             IN  [kind |-> "conversations", page |-> page, limit |-> limit,
                  conversations |-> [i \in 1..Len(paged) |-> ConversationEntry(paged[i])],
                  total |-> total]

\* ---------------------------------------------------------------- state
NoLoc == [op |-> "none", conversation_id |-> 0, sender_id |-> 0, receiver_id |-> 0,
          content |-> 0, id |-> 0, created_at |-> 0, page |-> 0, limit |-> 0,
          user_id |-> 0, before_timestamp |-> 0, rows1 |-> << >>]

Start(seq) ==
    /\ messages = {}
    /\ conversations = {}
    /\ last_message_cache = {}
    /\ tokenOrder \in Perms(ConvIds)
    /\ sequential = seq
    /\ now = 0
    /\ pc = [p \in Procs |-> "idle"]
    /\ loc = [p \in Procs |-> NoLoc]
    /\ ret = [p \in Procs |-> NotFound]
    /\ nops = 0
    /\ firstId = [q \in Pairs |-> 0]
    /\ appendCount = [c \in ConvIds |-> 0]
    /\ issuedM = {}
    /\ issuedC = {}
    /\ allocOK = TRUE
    /\ foreign = FALSE

\* Concurrent callers.
Init == Start(FALSE)

\* Sequential calls.
SeqInit == Start(TRUE)

\* datetime.now(): the clock never runs backwards; two reads may see the same value.
ClockRead(t) ==
    /\ t \in {now, now + 1}
    /\ t <= MaxTime
    /\ now' = t

\* Sequential calls come from one caller, each awaited before the next (a
\* coroutine keeps nothing from one call to the next, so one caller stands for all).
SeqProcs == {"c1"}

\* Writing calls explored: MaxOps in a sequential run, MaxConcurrentOps in a
\* run whose calls interleave.
OpsLimit == IF sequential THEN MaxOps ELSE MaxConcurrentOps

CanCall(p) ==
    /\ pc[p] = "idle"
    /\ sequential => p \in SeqProcs

\* A caller invokes a writing method on an idle coroutine.
Begin(p) ==
    /\ CanCall(p)
    /\ nops < OpsLimit
    /\ nops' = nops + 1

\* A caller invokes a read method: reads leave the tables alone and are not
\* counted.  A concurrent run starts no call once its writing calls are used up.
BeginRead(p) ==
    /\ CanCall(p)
    /\ sequential \/ nops < OpsLimit
    /\ UNCHANGED nops

\* The caller consumes the returned value.
Return(p) ==
    /\ pc[p] = "done"
    /\ pc' = [pc EXCEPT ![p] = "idle"]
    /\ loc' = [loc EXCEPT ![p] = NoLoc]
    /\ ret' = [ret EXCEPT ![p] = NotFound]
    /\ UNCHANGED <<tables, fixed, now, nops, history>>

\* ------------------------------------------------- MessageModel.create_message
\* line 60: message_id = await get_new_message_id()
AppendGetId(p) ==
    /\ Begin(p)
    /\ \E cid \in ConvIds, s \in Users, r \in Users, c \in Contents :
         LET mid == get_new_message_id(messages)
         IN  /\ loc' = [loc EXCEPT ![p] = [NoLoc EXCEPT !.op = "create_message",
                            !.conversation_id = cid, !.sender_id = s, !.receiver_id = r,
                            !.content = c, !.id = mid]]
             /\ allocOK' = (allocOK /\ mid \notin {m.message_id : m \in messages}
                                    /\ \A i \in issuedM : i < mid)
             /\ issuedM' = issuedM \cup {mid}
             /\ foreign' = (foreign \/ ~\E v \in conversations :
                                          /\ v.conversation_id = cid
                                          /\ Pair(v.user1_id, v.user2_id) = Pair(s, r))
    /\ pc' = [pc EXCEPT ![p] = "append_insert"]
    /\ UNCHANGED <<tables, fixed, now, ret, firstId, appendCount, issuedC>>

\* lines 63-70: created_at = datetime.now(); INSERT INTO messages
AppendInsert(p) ==
    /\ pc[p] = "append_insert"
    /\ \E t \in Times :
         /\ ClockRead(t)
         /\ messages' = InsertMessage(messages,
               [message_id |-> loc[p].id, conversation_id |-> loc[p].conversation_id,
                sender_id |-> loc[p].sender_id, receiver_id |-> loc[p].receiver_id,
                content |-> loc[p].content, timestamp |-> t])
         /\ loc' = [loc EXCEPT ![p].created_at = t]
    /\ pc' = [pc EXCEPT ![p] = "append_update"]
    /\ UNCHANGED <<conversations, last_message_cache, fixed, ret, nops, history>>

\* A slip in the parameter order of the UPDATE: sender and receiver exchanged.
UpdatedCacheRowSwapped(l) ==
    [conversation_id |-> l.conversation_id, sender_id |-> l.receiver_id,
     receiver_id |-> l.sender_id, last_timestamp |-> l.created_at,
     last_message |-> l.content]

\* A slip in the parameters of the UPDATE: the sender written to both columns.
UpdatedCacheRowSenderTwice(l) ==
    [conversation_id |-> l.conversation_id, sender_id |-> l.sender_id,
     receiver_id |-> l.sender_id, last_timestamp |-> l.created_at,
     last_message |-> l.content]

\* lines 73-78: the row UPDATE last_message_cache SET ... WHERE conversation_id leaves
UpdatedCacheRow(l) ==
    [conversation_id |-> l.conversation_id, sender_id |-> l.sender_id,
     receiver_id |-> l.receiver_id, last_timestamp |-> l.created_at,
     last_message |-> l.content]

\* lines 72-89: UPDATE last_message_cache; return the message
AppendUpdate(p) ==
    /\ pc[p] = "append_update"
    /\ LET l == loc[p]
       IN  /\ last_message_cache' = WriteCache(last_message_cache, UpdatedCacheRow(l))
           /\ ret' = [ret EXCEPT ![p] =
                 [kind |-> "message", message_id |-> l.id, sender_id |-> l.sender_id,
                  receiver_id |-> l.receiver_id, content |-> l.content,
                  timestamp |-> l.created_at, conversation_id |-> l.conversation_id]]
           /\ appendCount' = [appendCount EXCEPT ![l.conversation_id] = @ + 1]
    /\ pc' = [pc EXCEPT ![p] = "done"]
    /\ UNCHANGED <<messages, conversations, fixed, now, loc, nops,
                   firstId, issuedM, issuedC, allocOK, foreign>>

\* line 78: the storage call of the UPDATE raises (the store cannot be
\* reached): nothing in create_message catches it, the exception leaves the
\* method after the INSERT of line 70 has taken effect.
AppendUpdateFails(p) ==
    /\ pc[p] = "append_update"
    /\ ret' = [ret EXCEPT ![p] = Raised]
    /\ pc' = [pc EXCEPT ![p] = "done"]
    /\ UNCHANGED <<tables, fixed, now, loc, nops, history>>

\* --------------------------------------- MessageModel.get_conversation_messages
\* lines 105-109: SELECT COUNT(*) (its result is overwritten at line 133)
ListCount(p) ==
    /\ BeginRead(p)
    /\ \E cid \in ConvIds :
         loc' = [loc EXCEPT ![p] = [NoLoc EXCEPT !.op = "get_conversation_messages",
                     !.conversation_id = cid]]
    /\ pc' = [pc EXCEPT ![p] = "list_select"]
    /\ UNCHANGED <<tables, fixed, now, ret, history>>

\* lines 111-138: SELECT ... ORDER BY timestamp DESC; slice; return.  The
\* arguments page and limit are first read at line 134: they are drawn here.
ListSelect(p) ==
    /\ pc[p] = "list_select"
    /\ \E page \in Pages, limit \in Limits :
         /\ loc' = [loc EXCEPT ![p].page = page, ![p].limit = limit]
         /\ ret' = [ret EXCEPT ![p] = get_conversation_messages(messages,
                        loc[p].conversation_id, page, limit)]
    /\ pc' = [pc EXCEPT ![p] = "done"]
    /\ UNCHANGED <<tables, fixed, now, nops, history>>

\* ----------------------------------- MessageModel.get_messages_before_timestamp
\* lines 160-166: SELECT COUNT(*) (its result is overwritten at line 188)
ListBeforeCount(p) ==
    /\ BeginRead(p)
    /\ \E cid \in ConvIds, before \in Times :
         loc' = [loc EXCEPT ![p] = [NoLoc EXCEPT !.op = "get_messages_before_timestamp",
                     !.conversation_id = cid, !.before_timestamp = before]]
    /\ pc' = [pc EXCEPT ![p] = "list_before_select"]
    /\ UNCHANGED <<tables, fixed, now, ret, history>>

\* lines 168-194: SELECT ... AND timestamp < %s ORDER BY timestamp DESC; slice;
\* return.  The arguments page and limit are first read at line 189.
ListBeforeSelect(p) ==
    /\ pc[p] = "list_before_select"
    /\ \E page \in Pages, limit \in Limits :
         /\ loc' = [loc EXCEPT ![p].page = page, ![p].limit = limit]
         /\ ret' = [ret EXCEPT ![p] = get_messages_before_timestamp(messages,
                        loc[p].conversation_id, loc[p].before_timestamp, page, limit)]
    /\ pc' = [pc EXCEPT ![p] = "done"]
    /\ UNCHANGED <<tables, fixed, now, nops, history>>

\* ------------------------------------- ConversationModel.get_user_conversations
\* line 243: rows1 = await execute(query2): the rows with receiver_id = user_id
UserConversationsReceiver(p) ==
    /\ BeginRead(p)
    /\ \E u \in Users :
         loc' = [loc EXCEPT ![p] = [NoLoc EXCEPT !.op = "get_user_conversations",
                     !.user_id = u,
                     !.rows1 = ScanCache({c \in last_message_cache : c.receiver_id = u})]]
    /\ pc' = [pc EXCEPT ![p] = "user_conversations_sender"]
    /\ UNCHANGED <<tables, fixed, now, ret, history>>

\* lines 244-268: rows2 = await execute(query1): the rows with sender_id =
\* user_id; merge, sort, slice, return.  The arguments page and limit are
\* first read at line 254.
UserConversationsSender(p) ==
    /\ pc[p] = "user_conversations_sender"
    /\ \E page \in Pages, limit \in Limits :
         LET rows2 == ScanCache({c \in last_message_cache : c.sender_id = loc[p].user_id})
         IN  /\ loc' = [loc EXCEPT ![p].page = page, ![p].limit = limit]
             /\ ret' = [ret EXCEPT ![p] = get_user_conversations(loc[p].rows1, rows2,
                              page, limit)]
    /\ pc' = [pc EXCEPT ![p] = "done"]
    /\ UNCHANGED <<tables, fixed, now, nops, history>>

\* --------------------------------------------- ConversationModel.get_conversation
Get(p) ==
    /\ BeginRead(p)
    /\ \E cid \in ConvIds :
         /\ loc' = [loc EXCEPT ![p] = [NoLoc EXCEPT !.op = "get_conversation",
                        !.conversation_id = cid]]
         /\ ret' = [ret EXCEPT ![p] = get_conversation(last_message_cache, cid)]
    /\ pc' = [pc EXCEPT ![p] = "done"]
    /\ UNCHANGED <<tables, fixed, now, history>>

\* ---------------------------------- ConversationModel.create_or_get_conversation
RecordFirst(u1, u2, cid) ==
    firstId' = IF firstId[Pair(u1, u2)] = 0
                 THEN [firstId EXCEPT ![Pair(u1, u2)] = cid]
                 ELSE firstId

\* lines 316-326: the lookup sender_id = user1_id AND receiver_id = user2_id
CogLookup1(p) ==
    /\ Begin(p)
    /\ \E u1 \in Users, u2 \in Users :
         LET hit == LookupCache(last_message_cache, u1, u2)
         IN  /\ loc' = [loc EXCEPT ![p] = [NoLoc EXCEPT !.op = "create_or_get_conversation",
                            !.sender_id = u1, !.receiver_id = u2,
                            !.id = IF hit = None THEN 0 ELSE hit]]
             /\ pc' = [pc EXCEPT ![p] = IF hit = None THEN "cog_lookup2" ELSE "cog_get"]
    /\ UNCHANGED <<tables, fixed, now, ret, history>>

\* lines 328-331: the lookup sender_id = user2_id AND receiver_id = user1_id
CogLookup2(p) ==
    /\ pc[p] = "cog_lookup2"
    /\ LET hit == LookupCache(last_message_cache, loc[p].receiver_id, loc[p].sender_id)
       IN  /\ loc' = [loc EXCEPT ![p].id = IF hit = None THEN 0 ELSE hit]
           /\ pc' = [pc EXCEPT ![p] = IF hit = None THEN "cog_new_id" ELSE "cog_get"]
    /\ UNCHANGED <<tables, fixed, now, ret, nops, history>>

\* lines 325, 330: return await get_conversation(rows[0]["conversation_id"])
CogGet(p) ==
    /\ pc[p] = "cog_get"
    /\ LET r == get_conversation(last_message_cache, loc[p].id)
       IN  /\ ret' = [ret EXCEPT ![p] = r]
           /\ IF r = NotFound THEN UNCHANGED firstId
              ELSE RecordFirst(loc[p].sender_id, loc[p].receiver_id, r.conversation_id)
    /\ pc' = [pc EXCEPT ![p] = "done"]
    /\ UNCHANGED <<tables, fixed, now, loc, nops, appendCount, issuedM, issuedC, allocOK, foreign>>

\* line 335: conversation_id = await get_new_conversation_id()
CogNewId(p) ==
    /\ pc[p] = "cog_new_id"
    /\ LET cid == get_new_conversation_id(conversations)
       IN  /\ cid <= MaxConv
           /\ loc' = [loc EXCEPT ![p].id = cid]
           /\ allocOK' = (allocOK /\ cid \notin {c.conversation_id : c \in conversations}
                                  /\ \A i \in issuedC : i < cid)
           /\ issuedC' = issuedC \cup {cid}
    /\ pc' = [pc EXCEPT ![p] = "cog_insert_conversation"]
    /\ UNCHANGED <<tables, fixed, now, ret, nops, firstId, appendCount, issuedM, foreign>>

\* lines 338-345: created_at = datetime.now(); INSERT INTO conversations
CogInsertConversation(p) ==
    /\ pc[p] = "cog_insert_conversation"
    /\ \E t \in Times :
         /\ ClockRead(t)
         /\ conversations' = InsertConversation(conversations,
               [conversation_id |-> loc[p].id, user1_id |-> loc[p].sender_id,
                user2_id |-> loc[p].receiver_id, last_timestamp |-> t])
         /\ loc' = [loc EXCEPT ![p].created_at = t]
    /\ pc' = [pc EXCEPT ![p] = "cog_insert_cache"]
    /\ UNCHANGED <<messages, last_message_cache, fixed, ret, nops, history>>

\* lines 347-362: INSERT INTO last_message_cache; return the new snapshot
CogInsertCache(p) ==
    /\ pc[p] = "cog_insert_cache"
    /\ LET l == loc[p]
       IN  /\ last_message_cache' = WriteCache(last_message_cache,
                 [conversation_id |-> l.id, sender_id |-> l.sender_id,
                  receiver_id |-> l.receiver_id, last_timestamp |-> l.created_at,
                  last_message |-> None])
           /\ ret' = [ret EXCEPT ![p] =
                 [kind |-> "conversation", conversation_id |-> l.id,
                  sender_id |-> l.sender_id, receiver_id |-> l.receiver_id,
                  last_message_at |-> l.created_at, last_message_content |-> None]]
           /\ RecordFirst(l.sender_id, l.receiver_id, l.id)
    /\ pc' = [pc EXCEPT ![p] = "done"]
    /\ UNCHANGED <<messages, conversations, fixed, now, loc, nops,
                   appendCount, issuedM, issuedC, allocOK, foreign>>

\* ---------------------------------------------------------------- specifications
Step(p) ==
    \/ AppendGetId(p)
    \/ AppendInsert(p)
    \/ AppendUpdate(p)
    \/ ListCount(p)
    \/ ListSelect(p)
    \/ ListBeforeCount(p)
    \/ ListBeforeSelect(p)
    \/ UserConversationsReceiver(p)
    \/ UserConversationsSender(p)
    \/ Get(p)
    \/ CogLookup1(p)
    \/ CogLookup2(p)
    \/ CogGet(p)
    \/ CogNewId(p)
    \/ CogInsertConversation(p)
    \/ CogInsertCache(p)
    \/ Return(p)

Next == \E p \in Procs : Step(p)

\* Concurrent callers: the coroutines interleave at every storage round trip.
Spec == Init /\ [][Next]_vars

\* Sequential calls: each call runs to its return before the next starts.
SeqSpec == SeqInit /\ [][Next]_vars

\* A store whose cache UPDATE may fail: the writing calls (the read methods
\* leave the tables alone and are left to Spec and SeqSpec), and the failure.
FaultStep(p) ==
    \/ AppendGetId(p)
    \/ AppendInsert(p)
    \/ AppendUpdate(p)
    \/ AppendUpdateFails(p)
    \/ CogLookup1(p)
    \/ CogLookup2(p)
    \/ CogGet(p)
    \/ CogNewId(p)
    \/ CogInsertConversation(p)
    \/ CogInsertCache(p)
    \/ Return(p)

FaultNext == \E p \in Procs : FaultStep(p)

\* Sequential calls against a store whose cache UPDATE may fail.
FaultSpec == SeqInit /\ [][FaultNext]_vars

\* ================================================================ claims

\* Unordered pairs that have a row in conversations.
ConversationsOf(q) == {c \in conversations : Pair(c.user1_id, c.user2_id) = q}

\* A create_or_get_conversation call of p has returned a conversation.
CogDone(p) ==
    /\ pc[p] = "done"
    /\ loc[p].op = "create_or_get_conversation"
    /\ ret[p].kind = "conversation"

\* C1: called sequentially, create_or_get for a pair (in either argument order)
\* always returns the id its first call for that unordered pair returned, and
\* no pair has two conversations.
C1_SamePairSameId ==
    /\ \A p \in Procs : CogDone(p) =>
          ret[p].conversation_id = firstId[Pair(loc[p].sender_id, loc[p].receiver_id)]
    /\ \A q \in Pairs : Cardinality(ConversationsOf(q)) <= 1

\* C2: two create_or_get calls for the same unordered pair, in flight together,
\* return the same id and leave exactly one conversation for the pair.
C2_ConcurrentCreateOnce ==
    \A p, q \in Procs :
        (/\ p # q /\ CogDone(p) /\ CogDone(q)
         /\ Pair(loc[p].sender_id, loc[p].receiver_id) = Pair(loc[q].sender_id, loc[q].receiver_id))
        => /\ ret[p].conversation_id = ret[q].conversation_id
           /\ Cardinality(ConversationsOf(Pair(loc[p].sender_id, loc[p].receiver_id))) = 1

\* C3: no two stored messages have the same message_id.
C3_MessageIdUnique ==
    \A m1, m2 \in messages : m1.message_id = m2.message_id => m1 = m2

\* C4: every id the allocators returned was not in use and higher than every
\* id issued before for that entity type.
C4_AllocFreshAndHigher == allocOK

\* An id has been allocated by p's call and is held for its writes.
HoldsMessageId(p) == pc[p] \in {"append_insert", "append_update"}
HoldsConversationId(p) == pc[p] \in {"cog_insert_conversation", "cog_insert_cache"}

\* C5: two calls in flight together never hold the same allocated id.
C5_ConcurrentIdsDiffer ==
    \A p, q \in Procs : p # q =>
        /\ (HoldsMessageId(p) /\ HoldsMessageId(q)) => loc[p].id # loc[q].id
        /\ (HoldsConversationId(p) /\ HoldsConversationId(q)
             /\ Pair(loc[p].sender_id, loc[p].receiver_id) # Pair(loc[q].sender_id, loc[q].receiver_id))
            => loc[p].id # loc[q].id

\* A create_message call of p has returned.
AppendDone(p) == pc[p] = "done" /\ loc[p].op = "create_message"

\* A create_message call for conversation cid is between its first and last step.
AppendInProgress(cid) ==
    \E p \in Procs : HoldsMessageId(p) /\ loc[p].conversation_id = cid

C7_CacheReflectsLatest ==
    \A c \in last_message_cache :
        (/\ c.last_message # None
         /\ ~AppendInProgress(c.conversation_id)
         /\ Partition(messages, c.conversation_id) # {})
        => LET top == OrderByTimestampDesc(Partition(messages, c.conversation_id))[1]
           IN  /\ c.last_timestamp = top.timestamp
               /\ c.last_message = top.content

\* C8: a conversation with no message has an empty cache: the stored row and
\* the snapshot create_or_get_conversation returns have last_message and
\* last_timestamp null.
C8_EmptyCacheUntilFirstAppend ==
    /\ \A c \in last_message_cache :
          (/\ \E v \in conversations : v.conversation_id = c.conversation_id
           /\ appendCount[c.conversation_id] = 0
           /\ ~AppendInProgress(c.conversation_id)
           /\ Partition(messages, c.conversation_id) = {})
          => (c.last_message = None /\ c.last_timestamp = None)
    /\ \A p \in Procs :
          (CogDone(p) /\ Partition(messages, ret[p].conversation_id) = {}
                      /\ ~AppendInProgress(ret[p].conversation_id))
          => (ret[p].last_message_content = None /\ ret[p].last_message_at = None)

\* No call is in flight.
Quiescent == \A p \in Procs : pc[p] \in {"idle", "done"}

\* C9: after any sequence of create_message calls, the total count of
\* get_conversation_messages is the number of create_message calls made for
\* the conversation, for every page and limit.
C9_TotalIsAppendCount ==
    Quiescent =>
        \A cid \in ConvIds, page \in Pages, limit \in Limits :
            get_conversation_messages(messages, cid, page, limit).total = appendCount[cid]

\* Number of messages of the conversation that are newer than m.
NewerThan(cid, m) == Cardinality({x \in Partition(messages, cid) : x.timestamp > m.timestamp})

\* Pages 1..n of a conversation, concatenated.
RECURSIVE ConcatPages(_, _, _)
ConcatPages(cid, limit, n) ==
    IF n = 0 THEN << >>
    ELSE ConcatPages(cid, limit, n - 1)
         \o get_conversation_messages(messages, cid, n, limit).messages

\* C10: a returned page N holds, at position i, the message with exactly
\* (N-1)*limit + i - 1 newer messages in its conversation, and as many rows as
\* are left from that offset, up to limit; pages 1, 2, 3, ... concatenated
\* hold every message of the conversation exactly once.
C10_PageIsSlice ==
    /\ \A p \in Procs :
          (pc[p] = "done" /\ loc[p].op = "get_conversation_messages") =>
             LET cid == loc[p].conversation_id
                 off == (loc[p].page - 1) * loc[p].limit
                 n == Cardinality(Partition(messages, cid))
                 page == ret[p].messages
             IN  /\ ret[p].total = n
                 /\ Len(page) = Max(0, Min(loc[p].limit, n - off))
                 /\ \A i \in 1..Len(page) :
                       /\ page[i] \in Partition(messages, cid)
                       /\ NewerThan(cid, page[i]) = off + i - 1
    /\ \A p \in Procs, limit \in Limits :
          (pc[p] = "done" /\ loc[p].op = "get_conversation_messages") =>
             LET cid == loc[p].conversation_id
                 n == Cardinality(Partition(messages, cid))
                 all == ConcatPages(cid, limit, n + 1)
             IN  /\ Len(all) = n
                 /\ {all[i] : i \in 1..n} = Partition(messages, cid)

\* C10 witness: page 2 with limit 2 of a conversation of three messages has
\* been returned: it holds the one oldest message.
C10_Witness ==
    \E p \in Procs :
        /\ pc[p] = "done"
        /\ loc[p].op = "get_conversation_messages"
        /\ loc[p].page = 2 /\ loc[p].limit = 2
        /\ ret[p].total = 3
        /\ Len(ret[p].messages) = 1

\* A get_messages_before_timestamp call of p has returned.
ListBeforeDone(p) == pc[p] = "done" /\ loc[p].op = "get_messages_before_timestamp"

\* Stored messages of the conversation that are older than t.
Before(cid, t) == {m \in Partition(messages, cid) : m.timestamp < t}

\* What get_messages_before_timestamp(cid, T) returned is page `page` of the
\* messages older than T, newest first, and its total counts those messages.
ReturnsMessagesBefore(p) ==
    LET cid == loc[p].conversation_id
        older == Before(cid, loc[p].before_timestamp)
        off == (loc[p].page - 1) * loc[p].limit
        n == Cardinality(older)
        page == ret[p].messages
    IN  /\ ret[p].total = n
        /\ Len(page) = Max(0, Min(loc[p].limit, n - off))
        /\ \A i \in 1..Len(page) :
              /\ page[i] \in older
              /\ Cardinality({x \in older : x.timestamp > page[i].timestamp}) = off + i - 1

\* C11 as stated: get_messages_before_timestamp(cid, T) returns a strict
\* subset of the conversation's messages: exactly those with timestamp < T,
\* newest first, with the total counting them.
C11_StrictSubsetBefore ==
    \A p \in Procs : ListBeforeDone(p) =>
        /\ ReturnsMessagesBefore(p)
        /\ Before(loc[p].conversation_id, loc[p].before_timestamp)
              # Partition(messages, loc[p].conversation_id)

\* C11, amended: get_messages_before_timestamp(cid, T) returns exactly the
\* messages of the conversation with timestamp < T (one at T is left out),
\* newest first, with the total counting them; they are all of the
\* conversation's messages when none is at or after T.
C11_ExactlyOlderMessages ==
    \A p \in Procs : ListBeforeDone(p) => ReturnsMessagesBefore(p)

\* C11 witness: a call has returned with one message older than T, one at T
\* and one newer than T in the conversation.
C11_Witness ==
    \E p \in Procs :
        /\ ListBeforeDone(p)
        /\ ret[p].total = 1 /\ Len(ret[p].messages) = 1
        /\ \E m \in Partition(messages, loc[p].conversation_id) : m.timestamp = loc[p].before_timestamp
        /\ \E m \in Partition(messages, loc[p].conversation_id) : m.timestamp > loc[p].before_timestamp

\* A get_user_conversations call of p has returned.
UserConversationsDone(p) == pc[p] = "done" /\ loc[p].op = "get_user_conversations"

\* Ids of the conversations in which u is user1 or user2.
ConversationIdsOfUser(u) ==
    {v.conversation_id : v \in {x \in conversations : x.user1_id = u \/ x.user2_id = u}}

\* Every cache row belongs to a created conversation and names its two participants.
CacheMatchesConversations ==
    \A c \in last_message_cache : \E v \in conversations :
        /\ v.conversation_id = c.conversation_id
        /\ Pair(v.user1_id, v.user2_id) = Pair(c.sender_id, c.receiver_id)

\* C12: get_user_conversations(U) lists every conversation in which U is
\* user1 or user2, each exactly once, newest last_timestamp first with the
\* conversations that have no message last, and its total is the number of
\* conversations U takes part in.  (Checked where every cache row belongs to a
\* created conversation of the same two participants.)
C12_ListForUser ==
    \A p \in Procs : (UserConversationsDone(p) /\ CacheMatchesConversations) =>
        LET ids == ConversationIdsOfUser(loc[p].user_id)
            page == ret[p].conversations
            off == (loc[p].page - 1) * loc[p].limit
        IN  /\ ret[p].kind = "conversations"
            /\ ret[p].total = Cardinality(ids)
            /\ Len(page) = Max(0, Min(loc[p].limit, Cardinality(ids) - off))
            /\ \A i \in 1..Len(page) : page[i].conversation_id \in ids
            /\ \A i, j \in 1..Len(page) :
                  i < j => /\ page[i].conversation_id # page[j].conversation_id
                           /\ ~(/\ Partition(messages, page[i].conversation_id) = {}
                                /\ Partition(messages, page[j].conversation_id) # {})
                           /\ (/\ Partition(messages, page[i].conversation_id) # {}
                               /\ Partition(messages, page[j].conversation_id) # {})
                              => page[i].last_message_at >= page[j].last_message_at

\* The message row the create_message call of p wrote.
WrittenMessage(l) ==
    [message_id |-> l.id, conversation_id |-> l.conversation_id,
     sender_id |-> l.sender_id, receiver_id |-> l.receiver_id,
     content |-> l.content, timestamp |-> l.created_at]

\* C13: when the cache UPDATE fails after the message was written,
\* create_message still returns the message (no error), the message stays in
\* the log and the cache keeps its previous value.
C13_AppendSurvivesCacheFailure ==
    [][\A p \in Procs : AppendUpdateFails(p) =>
          /\ ret'[p].kind = "message"
          /\ WrittenMessage(loc[p]) \in messages'
          /\ last_message_cache' = last_message_cache]_vars

\* C14: a written message is never changed and never deleted: every stored
\* message is still stored, with the same fields, after every step.
C14_MessagesImmutable ==
    [][\A m \in messages : m \in messages']_vars

\* C15: conversations and cache rows are in one-to-one correspondence
\* (between calls): every conversation has a cache row and every cache row,
\* the ones create_message wrote included, belongs to a created conversation.
C15_CacheRowsAreConversations ==
    Quiescent =>
        /\ \A v \in conversations :
              Cardinality({c \in last_message_cache : c.conversation_id = v.conversation_id}) = 1
        /\ \A c \in last_message_cache :
              Cardinality({v \in conversations : v.conversation_id = c.conversation_id}) = 1

\* A read call of p has returned.
ReadDone(p, op) == pc[p] = "done" /\ loc[p].op = op

\* Rows the two queries of get_user_conversations(u) gather.
RowsGathered(u) ==
    Cardinality({c \in last_message_cache : c.receiver_id = u})
      + Cardinality({c \in last_message_cache : c.sender_id = u})

ListedAt(msgs, m) ==
    LET all == OrderByTimestampDesc(Partition(msgs, m.conversation_id))
    IN  CHOOSE i \in 1..Len(all) : all[i] = m

\* C17: a message written with the timestamp of a stored message of the same
\* conversation does not replace it: both are kept, and the one with the
\* higher message id is listed first.
C17_EqualTimestampsBothKept ==
    [][\A p \in Procs : (pc[p] = "append_insert" /\ pc'[p] = "append_update") =>
          \A m \in Partition(messages, loc[p].conversation_id) :
              m.timestamp = loc'[p].created_at =>
                  LET w == WrittenMessage(loc'[p])
                  IN  /\ m \in messages'
                      /\ w \in messages'
                      /\ m.message_id < w.message_id => ListedAt(messages', w) < ListedAt(messages', m)
                      /\ m.message_id > w.message_id => ListedAt(messages', w) > ListedAt(messages', m)]_vars

\* C18: create_or_get_conversation creating a conversation for a new pair
\* leaves every existing conversation as it was: its INSERT INTO conversations
\* replaces no row (the new id is the id of no existing conversation), and its
\* INSERT INTO last_message_cache leaves the messages, the conversations and
\* the cache rows of the other ids alone.
C18_CreateLeavesOthersUntouched ==
    [][\A p \in Procs :
          /\ (pc[p] = "cog_insert_conversation" /\ pc'[p] = "cog_insert_cache") =>
                /\ \A v \in conversations : v \in conversations'
                /\ UNCHANGED <<messages, last_message_cache>>
          /\ (pc[p] = "cog_insert_cache" /\ pc'[p] = "done") =>
                /\ \A c \in last_message_cache :
                      c.conversation_id # loc[p].id => c \in last_message_cache'
                /\ UNCHANGED <<messages, conversations>>]_vars

\* Rows of a table whose conversation_id is not cid.
Others(tbl, cid) == {x \in tbl : x.conversation_id # cid}

\* C19: every step of create_message(cid, ...) leaves the conversations table,
\* the messages of the other conversations and the cache rows of the other
\* conversations as they were; and create_or_get_conversation for a pair that
\* has a conversation writes to no table.
C19_FrameOfAppendAndGet ==
    [][\A p \in Procs :
          /\ (pc'[p] = "append_insert" \/ pc[p] \in {"append_insert", "append_update"}) =>
                LET cid == loc'[p].conversation_id
                IN  /\ UNCHANGED conversations
                    /\ Others(messages', cid) = Others(messages, cid)
                    /\ Others(last_message_cache', cid) = Others(last_message_cache, cid)
          /\ (/\ pc[p] \in {"cog_lookup2", "cog_get", "cog_new_id", "cog_insert_conversation"}
              /\ ConversationsOf(Pair(loc[p].sender_id, loc[p].receiver_id)) # {}) =>
                UNCHANGED tables]_vars

\* The id the two lookups of create_or_get_conversation(u1, u2) find, or None.
LookupEitherWay(u1, u2) ==
    LET hit == LookupCache(last_message_cache, u1, u2)
    IN  IF hit # None THEN hit ELSE LookupCache(last_message_cache, u2, u1)

\* C20: as long as every create_message named the two participants of its
\* conversation as sender and receiver (in either direction), the cache row
\* of a conversation names the conversation's two participants, and the two
\* lookups of create_or_get_conversation find the conversation.
C20_CachePairIsParticipants ==
    (~foreign /\ Quiescent) =>
        \A v \in conversations :
            /\ \A c \in last_message_cache :
                  c.conversation_id = v.conversation_id =>
                      Pair(c.sender_id, c.receiver_id) = Pair(v.user1_id, v.user2_id)
            /\ LookupEitherWay(v.user1_id, v.user2_id) = v.conversation_id
            /\ LookupEitherWay(v.user2_id, v.user1_id) = v.conversation_id

\* C20 witness: a conversation of two users has received a message in each
\* direction, the last one from user2 to user1.
C20_Witness ==
    /\ ~foreign
    /\ \E p \in Procs, v \in conversations :
          /\ AppendDone(p)
          /\ v.conversation_id = loc[p].conversation_id
          /\ v.user1_id # v.user2_id
          /\ loc[p].sender_id = v.user2_id /\ loc[p].receiver_id = v.user1_id
          /\ \E m \in Partition(messages, v.conversation_id) :
                m.sender_id = v.user1_id /\ m.receiver_id = v.user2_id
====
